---- MODULE Spec2Model ----
(***************************************************************************)
(* Model of the cookie-modifier Traefik middleware (src/main.go).          *)
(*                                                                         *)
(* One plugin instance is constructed by New, serves one request with     *)
(* ServeHTTP (request-phase rewrite of the Cookie header), and then the    *)
(* downstream handler drives the wrapped response writer: it mutates the   *)
(* header map, calls WriteHeader (intercepted, src/main.go:150) and Write  *)
(* (promoted unchanged from the embedded http.ResponseWriter,              *)
(* src/main.go:144), and returns.  Header values are Go strings; the       *)
(* string functions the code calls (strings.Contains, strings.Replace,     *)
(* strings.Join, Request.Cookies) are computed character by character.     *)
(***************************************************************************)
EXTENDS Integers, Sequences, FiniteSets, TLC

VARIABLES
    pc,             \* "start" | "failed" | "ready" | "serving" | "done"
    config,         \* the *Config given to New
    handler,        \* New's first result: nil, or a handler holding next
    err,            \* New's second result: "" (nil) or the error text
    reqOrig,        \* Cookie header lines of the request as received
    reqHeader,      \* req.Header["Cookie"] as the next handler sees it
    reqHost,        \* req.Host
    headerSets,     \* number of req.Header.Set("Cookie", ...) calls
    respSetCookie,  \* rw.Header()["Set-Cookie"], the live header map
    respOther,      \* rw.Header()["Content-Type"], the live header map
    wroteHeader,    \* underlying writer: status line and headers committed
    status,         \* underlying writer: committed status code (0 = none)
    body,           \* underlying writer: body bytes received
    sentSetCookie,  \* Set-Cookie lines released to the client at commit
    sentOther,      \* Content-Type released to the client at commit
    calls,          \* the calls the downstream handler made on the writer
    xformLog        \* one [in, out] record per transformResponseCookies run

vars == <<pc, config, handler, err, reqOrig, reqHeader, reqHost, headerSets,
          respSetCookie, respOther, wroteHeader, status, body,
          sentSetCookie, sentOther, calls, xformLog>>

(***************************************************************************)
(* Bounds of the model.                                                    *)
(***************************************************************************)
MaxCalls == 3          \* calls the downstream handler makes on the writer
MaxWriteHeader == 2    \* of which explicit WriteHeader calls

(***************************************************************************)
(* Go string functions used by the code.                                   *)
(***************************************************************************)
\* strings.Index, 1-based; 0 when substr does not occur in s.
Index(s, substr) ==
    LET ps == {i \in 1..(Len(s) - Len(substr) + 1) :
                   SubSeq(s, i, i + Len(substr) - 1) = substr}
    IN  IF ps = {} THEN 0 ELSE CHOOSE i \in ps : \A j \in ps : i <= j

Contains(s, substr) == Index(s, substr) # 0

\* strings.Replace(s, old, new, 1): only the first occurrence is replaced.
Replace(s, old, new) ==
    LET i == Index(s, old)
    IN  IF i = 0 THEN s
        ELSE SubSeq(s, 1, i - 1) \o new \o SubSeq(s, i + Len(old), Len(s))

\* strings.Join
RECURSIVE Join(_, _)
Join(elems, sep) ==
    IF elems = <<>> THEN ""
    ELSE IF Len(elems) = 1 THEN elems[1]
    ELSE elems[1] \o sep \o Join(Tail(elems), sep)

\* strings.Cut: [before, after, found]
Cut(s, sep) ==
    LET i == Index(s, sep)
    IN  IF i = 0 THEN [before |-> s, after |-> "", found |-> FALSE]
        ELSE [before |-> SubSeq(s, 1, i - 1),
              after  |-> SubSeq(s, i + Len(sep), Len(s)),
              found  |-> TRUE]

\* textproto.TrimString: strip leading and trailing spaces.
RECURSIVE TrimString(_)
TrimString(s) ==
    IF Len(s) = 0 THEN s
    ELSE IF SubSeq(s, 1, 1) = " " THEN TrimString(SubSeq(s, 2, Len(s)))
    ELSE IF SubSeq(s, Len(s), Len(s)) = " "
         THEN TrimString(SubSeq(s, 1, Len(s) - 1))
    ELSE s

(***************************************************************************)
(* net/http cookie parsing, as called through req.Cookies().               *)
(***************************************************************************)
\* Bytes that cannot appear in a cookie name (not HTTP token characters).
NonTokenChars == {" ", "\"", "=", ";", ",", "/", ":", "(", ")", "<", ">",
                  "?", "@", "[", "]", "{", "}", "\\"}

\* Bytes that cannot appear in a cookie value.
InvalidValueChars == {"\"", ";", "\\"}

isCookieNameValid(name) ==
    /\ name # ""
    /\ \A i \in 1..Len(name) : SubSeq(name, i, i) \notin NonTokenChars

\* parseCookieValue(raw, true): strips one pair of surrounding double quotes.
parseCookieValue(raw) ==
    LET stripped == IF /\ Len(raw) > 1
                       /\ SubSeq(raw, 1, 1) = "\""
                       /\ SubSeq(raw, Len(raw), Len(raw)) = "\""
                    THEN SubSeq(raw, 2, Len(raw) - 1)
                    ELSE raw
    IN  IF \A i \in 1..Len(stripped) :
               SubSeq(stripped, i, i) \notin InvalidValueChars
        THEN [val |-> stripped, ok |-> TRUE]
        ELSE [val |-> "", ok |-> FALSE]

\* An http.Cookie; only the fields the code touches.
Cookie(name, value, path, domain) ==
    [Name |-> name, Value |-> value, Path |-> path, Domain |-> domain]

\* The cookies of one Cookie header line.
RECURSIVE readCookieLine(_)
readCookieLine(line) ==
    IF Len(line) = 0 THEN <<>>
    ELSE LET c    == Cut(line, ";")
             part == TrimString(c.before)
             rest == readCookieLine(c.after)
         IN  IF part = "" THEN rest
             ELSE LET nv   == Cut(part, "=")
                      name == TrimString(nv.before)
                      pv   == parseCookieValue(nv.after)
                  IN  IF ~isCookieNameValid(name) \/ ~pv.ok THEN rest
                      ELSE <<Cookie(name, pv.val, "", "")>> \o rest

\* req.Cookies(): the cookies of all Cookie header lines, in order.
RECURSIVE Cookies(_)
Cookies(lines) ==
    IF lines = <<>> THEN <<>>
    ELSE readCookieLine(TrimString(Head(lines))) \o Cookies(Tail(lines))

(***************************************************************************)
(* Configuration and construction.                                         *)
(***************************************************************************)
Config(src, tgt, dyn, secure, httpOnly, sameSite, path, debug) ==
    [SourceCookieName |-> src, TargetCookieName |-> tgt,
     UseDynamicDomain |-> dyn, Secure |-> secure, HttpOnly |-> httpOnly,
     SameSite |-> sameSite, Path |-> path, Debug |-> debug]

CreateConfig ==
    Config("flowise_token", "simple_token", TRUE, FALSE, FALSE, "Lax", "/",
           FALSE)

\* The configurations New is called with: the default names with every
\* combination of the attribute fields, name pairs whose "name=" texts
\* overlap, and the configurations with an empty name.
AttributeConfigs ==
    { Config("flowise_token", "simple_token", d, s, h, ss, p, FALSE) :
        d \in BOOLEAN, s \in BOOLEAN, h \in BOOLEAN,
        ss \in {"", "Lax"}, p \in {"/", "/app"} }

NameConfigs ==
    { [CreateConfig EXCEPT !.SourceCookieName = n[1],
                           !.TargetCookieName = n[2], !.Debug = n[3]] :
        n \in { <<"token", "simple_token", FALSE>>,
                <<"my_token", "token", FALSE>>,
                <<"flowise_token", "flowise_token", FALSE>>,
                <<"flowise_token", "simple_token", TRUE>>,
                <<"", "simple_token", FALSE>>,
                <<"flowise_token", "", TRUE>>,
                <<"", "", FALSE>> } }

Configs == AttributeConfigs \cup NameConfigs

NextHandler == "next"
NilHandler == [nil |-> TRUE, next |-> ""]

\* New's result pair for a configuration.
NewResult_NoTargetCheck(cfg) ==
    IF cfg.SourceCookieName = ""
    THEN [handler |-> NilHandler, err |-> "sourceCookieName cannot be empty"]
    ELSE [handler |-> [nil |-> FALSE, next |-> NextHandler], err |-> ""]

NewResult(cfg) ==
    IF cfg.SourceCookieName = ""
    THEN [handler |-> NilHandler, err |-> "sourceCookieName cannot be empty"]
    ELSE IF cfg.TargetCookieName = ""
    THEN [handler |-> NilHandler, err |-> "targetCookieName cannot be empty"]
    ELSE [handler |-> [nil |-> FALSE, next |-> NextHandler], err |-> ""]

(***************************************************************************)
(* Request phase.                                                          *)
(***************************************************************************)
scanCookies_FirstWins(cookies, src, found, newCookies) ==
    LET NotSource(c) == c.Name # src
        IsSource(c) == c.Name = src
        sources == SelectSeq(cookies, IsSource)
    IN  [found |-> IF sources = <<>> THEN <<>> ELSE <<sources[1]>>,
         newCookies |-> SelectSeq(cookies, NotSource)]

\* The scan loop of transformRequestCookies: found holds the last cookie
\* named src (<<>> is the nil pointer), newCookies the others in order.
RECURSIVE scanCookies(_, _, _, _)
scanCookies(cookies, src, found, newCookies) ==
    IF cookies = <<>> THEN [found |-> found, newCookies |-> newCookies]
    ELSE IF Head(cookies).Name = src
         THEN scanCookies(Tail(cookies), src, <<Head(cookies)>>, newCookies)
         ELSE scanCookies(Tail(cookies), src, found,
                          Append(newCookies, Head(cookies)))

\* fmt.Sprintf("%s=%s", cookie.Name, cookie.Value) for each cookie.
cookieStrings(cookies) ==
    [i \in 1..Len(cookies) |-> cookies[i].Name \o "=" \o cookies[i].Value]

transformRequestCookies_AlwaysSet(lines, cfg, host) ==
    LET scan == scanCookies(Cookies(lines), cfg.SourceCookieName, <<>>, <<>>)
        transformed ==
            IF scan.found # <<>>
            THEN <<Cookie(cfg.TargetCookieName, scan.found[1].Value,
                          cfg.Path, "")>>
            ELSE <<>>
    IN  [set |-> TRUE,
         header |-> <<Join(cookieStrings(scan.newCookies \o transformed),
                           "; ")>>]

\* transformRequestCookies: [set] tells whether req.Header.Set was called,
\* [header] is req.Header["Cookie"] afterwards.
transformRequestCookies(lines, cfg, host) ==
    LET scan == scanCookies(Cookies(lines), cfg.SourceCookieName, <<>>, <<>>)
    IN  IF scan.found # <<>>
        THEN LET domain == IF cfg.UseDynamicDomain /\ host # ""
                           THEN host ELSE ""
                 transformedCookie ==
                     Cookie(cfg.TargetCookieName, scan.found[1].Value,
                            cfg.Path, domain)
                 newCookies == Append(scan.newCookies, transformedCookie)
             IN  [set |-> TRUE,
                  header |-> <<Join(cookieStrings(newCookies), "; ")>>]
        ELSE [set |-> FALSE, header |-> lines]

(***************************************************************************)
(* Response phase.                                                         *)
(***************************************************************************)
transformLine_PathUnchecked(setCookieHeader, cfg, host) ==
    LET h0 == Replace(setCookieHeader, cfg.SourceCookieName \o "=",
                      cfg.TargetCookieName \o "=")
        h1 == IF cfg.UseDynamicDomain /\ ~Contains(h0, "Domain=")
              THEN h0 \o "; Domain=" \o host ELSE h0
        h2 == IF cfg.Path # "/" THEN h1 \o "; Path=" \o cfg.Path ELSE h1
        h3 == IF cfg.Secure /\ ~Contains(h2, "Secure")
              THEN h2 \o "; Secure" ELSE h2
        h4 == IF cfg.HttpOnly /\ ~Contains(h3, "HttpOnly")
              THEN h3 \o "; HttpOnly" ELSE h3
        h5 == IF cfg.SameSite # "" /\ ~Contains(h4, "SameSite=")
              THEN h4 \o "; SameSite=" \o cfg.SameSite ELSE h4
    IN  h5

\* The body of the loop of transformResponseCookies for a line that
\* contains SourceCookieName+"=".
transformLine(setCookieHeader, cfg, host) ==
    LET h0 == Replace(setCookieHeader, cfg.SourceCookieName \o "=",
                      cfg.TargetCookieName \o "=")
        h1 == IF cfg.UseDynamicDomain /\ ~Contains(h0, "Domain=")
              THEN h0 \o "; Domain=" \o host ELSE h0
        h2 == IF cfg.Path # "/" /\ ~Contains(h1, "Path=")
              THEN h1 \o "; Path=" \o cfg.Path ELSE h1
        h3 == IF cfg.Secure /\ ~Contains(h2, "Secure")
              THEN h2 \o "; Secure" ELSE h2
        h4 == IF cfg.HttpOnly /\ ~Contains(h3, "HttpOnly")
              THEN h3 \o "; HttpOnly" ELSE h3
        h5 == IF cfg.SameSite # "" /\ ~Contains(h4, "SameSite=")
              THEN h4 \o "; SameSite=" \o cfg.SameSite ELSE h4
    IN  h5

transformResponseCookies_EveryLine(setCookieHeaders, cfg, host) ==
    IF Len(setCookieHeaders) = 0 THEN setCookieHeaders
    ELSE [i \in 1..Len(setCookieHeaders) |->
            transformLine(setCookieHeaders[i], cfg, host)]

transformResponseCookies_NoDel(setCookieHeaders, cfg, host) ==
    IF Len(setCookieHeaders) = 0 THEN setCookieHeaders
    ELSE setCookieHeaders \o
         [i \in 1..Len(setCookieHeaders) |->
            IF Contains(setCookieHeaders[i], cfg.SourceCookieName \o "=")
            THEN transformLine(setCookieHeaders[i], cfg, host)
            ELSE setCookieHeaders[i]]

\* transformResponseCookies: the Set-Cookie lines of the header map after
\* the call, given the lines before it.
transformResponseCookies(setCookieHeaders, cfg, host) ==
    IF Len(setCookieHeaders) = 0 THEN setCookieHeaders
    ELSE [i \in 1..Len(setCookieHeaders) |->
            IF Contains(setCookieHeaders[i], cfg.SourceCookieName \o "=")
            THEN transformLine(setCookieHeaders[i], cfg, host)
            ELSE setCookieHeaders[i]]

(***************************************************************************)
(* Inputs.                                                                 *)
(***************************************************************************)
\* Requests: Cookie header lines and Host.
Requests ==
    { [cookie |-> <<>>, host |-> "example.com"],
      [cookie |-> <<"other_cookie=other_value">>, host |-> ""],
      [cookie |-> <<"flowise_token=abc123; other=x">>,
       host |-> "example.com"],
      [cookie |-> <<"simple_token=old; flowise_token=abc">>,
       host |-> ""],
      [cookie |-> <<"flowise_token=a;other=\"x\" ; flowise_token=b">>,
       host |-> "example.com"],
      [cookie |-> <<"other=x;b=\"q\"">>, host |-> "example.com"],
      [cookie |-> <<"a=1", "token=z; my_token=m">>, host |-> "example.com"] }

\* The requests of the full cycle.
HostRequests ==
    { r \in Requests : r.cookie \in { <<"flowise_token=abc123; other=x">>,
                                      <<"other_cookie=other_value">> } }

\* Set-Cookie lines the downstream handler adds.
SetCookieLines ==
    { "flowise_token=xyz; Path=/",
      "session=s1; HttpOnly",
      "my_my_token=v",
      "flowise_token=a; Domain=d.io; Path=/x; Secure; SameSite=Strict" }

StatusCodes == {200, 404}
BodyChunks == {"ab"}
ContentTypes == {"text/html"}

Call(op, s, n) == [op |-> op, s |-> s, n |-> n]

WriteHeaderCalls == Cardinality({i \in 1..Len(calls) :
                                    calls[i].op = "WriteHeader"})

(***************************************************************************)
(* The underlying http.ResponseWriter (the embedded field of               *)
(* responseWriter).  The first WriteHeader commits the status code and a   *)
(* snapshot of the header map; later WriteHeader calls are ignored.        *)
(***************************************************************************)
UnderlyingWriteHeader(statusCode, setCookie) ==
    IF wroteHeader
    THEN UNCHANGED <<wroteHeader, status, sentSetCookie, sentOther>>
    ELSE /\ wroteHeader' = TRUE
         /\ status' = statusCode
         /\ sentSetCookie' = setCookie
         /\ sentOther' = respOther

(***************************************************************************)
(* Actions.                                                                *)
(***************************************************************************)
Init ==
    /\ pc = "start"
    /\ config = CreateConfig
    /\ handler = NilHandler
    /\ err = ""
    /\ reqOrig = <<>>
    /\ reqHeader = <<>>
    /\ reqHost = ""
    /\ headerSets = 0
    /\ respSetCookie = <<>>
    /\ respOther = ""
    /\ wroteHeader = FALSE
    /\ status = 0
    /\ body = ""
    /\ sentSetCookie = <<>>
    /\ sentOther = ""
    /\ calls = <<>>
    /\ xformLog = <<>>

\* New(ctx, next, config, name)
New(cfg) ==
    /\ pc = "start"
    /\ config' = cfg
    /\ handler' = NewResult(cfg).handler
    /\ err' = NewResult(cfg).err
    /\ pc' = IF NewResult(cfg).err = "" THEN "ready" ELSE "failed"
    /\ UNCHANGED <<reqOrig, reqHeader, reqHost, headerSets, respSetCookie,
                   respOther, wroteHeader, status, body, sentSetCookie,
                   sentOther, calls, xformLog>>

\* CookieModifier.ServeHTTP up to the call of cm.next.ServeHTTP.
ServeHTTP(req) ==
    /\ pc = "ready"
    /\ LET r == transformRequestCookies(req.cookie, config, req.host)
       IN  /\ reqHeader' = r.header
           /\ headerSets' = IF r.set THEN headerSets + 1 ELSE headerSets
    /\ reqOrig' = req.cookie
    /\ reqHost' = req.host
    /\ pc' = "serving"
    /\ UNCHANGED <<config, handler, err, respSetCookie, respOther,
                   wroteHeader, status, body, sentSetCookie, sentOther,
                   calls, xformLog>>

\* The downstream handler adds a Set-Cookie line: rw.Header().Add.
HeaderAdd(line) ==
    /\ pc = "serving"
    /\ Len(calls) < MaxCalls
    /\ respSetCookie' = Append(respSetCookie, line)
    /\ calls' = Append(calls, Call("Add", line, 0))
    /\ UNCHANGED <<pc, config, handler, err, reqOrig, reqHeader, reqHost,
                   headerSets, respOther, wroteHeader, status, body,
                   sentSetCookie, sentOther, xformLog>>

\* The downstream handler sets another header: rw.Header().Set.
HeaderSet(value) ==
    /\ pc = "serving"
    /\ Len(calls) < MaxCalls
    /\ respOther' = value
    /\ calls' = Append(calls, Call("Set", value, 0))
    /\ UNCHANGED <<pc, config, handler, err, reqOrig, reqHeader, reqHost,
                   headerSets, respSetCookie, wroteHeader, status, body,
                   sentSetCookie, sentOther, xformLog>>

\* responseWriter.WriteHeader
WriteHeader_Always200(statusCode) ==
    /\ pc = "serving"
    /\ Len(calls) < MaxCalls
    /\ WriteHeaderCalls < MaxWriteHeader
    /\ LET out == transformResponseCookies(respSetCookie, config, reqHost)
       IN  /\ respSetCookie' = out
           /\ xformLog' = Append(xformLog, [in |-> respSetCookie, out |-> out])
           /\ UnderlyingWriteHeader(200, out)
    /\ calls' = Append(calls, Call("WriteHeader", "", statusCode))
    /\ UNCHANGED <<pc, config, handler, err, reqOrig, reqHeader, reqHost,
                   headerSets, respOther, body>>

WriteHeader(statusCode) ==
    /\ pc = "serving"
    /\ Len(calls) < MaxCalls
    /\ WriteHeaderCalls < MaxWriteHeader
    /\ LET out == transformResponseCookies(respSetCookie, config, reqHost)
       IN  /\ respSetCookie' = out
           /\ xformLog' = Append(xformLog, [in |-> respSetCookie, out |-> out])
           /\ UnderlyingWriteHeader(statusCode, out)
    /\ calls' = Append(calls, Call("WriteHeader", "", statusCode))
    /\ UNCHANGED <<pc, config, handler, err, reqOrig, reqHeader, reqHost,
                   headerSets, respOther, body>>

\* Write is not overridden by responseWriter: the call goes straight to the
\* embedded writer, which commits status 200 first if nothing was committed.
Write(b) ==
    /\ pc = "serving"
    /\ Len(calls) < MaxCalls
    /\ UnderlyingWriteHeader(200, respSetCookie)
    /\ body' = body \o b
    /\ calls' = Append(calls, Call("Write", b, 0))
    /\ UNCHANGED <<pc, config, handler, err, reqOrig, reqHeader, reqHost,
                   headerSets, respSetCookie, respOther, xformLog>>

\* cm.next.ServeHTTP returns; the server commits status 200 on the
\* underlying writer if the handler committed nothing.
Return ==
    /\ pc = "serving"
    /\ pc' = "done"
    /\ UnderlyingWriteHeader(200, respSetCookie)
    /\ UNCHANGED <<config, handler, err, reqOrig, reqHeader, reqHost,
                   headerSets, respSetCookie, respOther, body, calls,
                   xformLog>>

Next ==
    \/ \E cfg \in Configs : New(cfg)
    \/ \E req \in HostRequests : ServeHTTP(req)
    \/ \E line \in SetCookieLines : HeaderAdd(line)
    \/ \E value \in ContentTypes : HeaderSet(value)
    \/ \E statusCode \in StatusCodes : WriteHeader(statusCode)
    \/ \E b \in BodyChunks : Write(b)
    \/ Return

\* The whole request/response cycle.  The response phase reads only the
\* Host of the request, so the requests here differ in their Host.
Spec == Init /\ [][Next]_vars

NextRequest ==
    \/ \E cfg \in Configs : New(cfg)
    \/ \E req \in Requests : ServeHTTP(req)

\* Construction and the request phase, over every request.
SpecRequest == Init /\ [][NextRequest]_vars

(***************************************************************************)
(* Properties.                                                             *)
(***************************************************************************)
SrcEq == config.SourceCookieName \o "="
TgtEq == config.TargetCookieName \o "="

Served == pc \in {"serving", "done"}

\* Positions of the cookies named name in a parsed cookie list.
Named(cookies, name) == {i \in 1..Len(cookies) : cookies[i].Name = name}

\* The value of the last cookie named name.
LastValue(cookies, name) ==
    cookies[CHOOSE i \in Named(cookies, name) :
                \A j \in Named(cookies, name) : j <= i].Value

HasSourceCookie == Named(Cookies(reqOrig), config.SourceCookieName) # {}

\* C1: a request holding a source cookie with value V (the last one when
\* several share the name) is forwarded with exactly one cookie named
\* TargetCookieName, of value V, and no cookie named SourceCookieName,
\* whatever other cookies it holds.  Stated for the configurations whose two
\* names differ, the only ones on which it can be met.
C1_ExactlyOneTarget ==
    (/\ Served
     /\ HasSourceCookie
     /\ config.SourceCookieName # config.TargetCookieName)
    => LET out == Cookies(reqHeader)
           tgt == Named(out, config.TargetCookieName)
       IN  /\ Cardinality(tgt) = 1
           /\ \A i \in tgt :
                  out[i].Value = LastValue(Cookies(reqOrig),
                                           config.SourceCookieName)
           /\ Named(out, config.SourceCookieName) = {}

\* C2: a request without a cookie named SourceCookieName keeps its Cookie
\* header lines as received and the header is never written.
C2_NoSourceUntouched ==
    (Served /\ ~HasSourceCookie)
    => /\ reqHeader = reqOrig
       /\ headerSets = 0

\* The header a rewrite would have produced differs from the one received,
\* so that an equal-looking rewrite would show.
C2_Witness ==
    /\ Served
    /\ ~HasSourceCookie
    /\ Len(reqOrig) = 1
    /\ reqOrig[1] # Join(cookieStrings(Cookies(reqOrig)), "; ")
    /\ reqHeader = reqOrig

\* C4: New fails, with an error and no handler, exactly when one of the two
\* names is empty; otherwise it returns a handler wrapping next and no error.
C4_NewErrorIffEmptyName ==
    pc # "start"
    => LET invalid == \/ config.SourceCookieName = ""
                      \/ config.TargetCookieName = ""
       IN  /\ invalid => (err # "" /\ handler.nil /\ pc = "failed")
           /\ ~invalid => /\ err = ""
                          /\ ~handler.nil
                          /\ handler.next = NextHandler
                          /\ pc # "failed"

C4_Witness ==
    /\ pc = "failed"
    /\ config.SourceCookieName # ""
    /\ config.TargetCookieName = ""
    /\ config.Debug
    /\ handler.nil
    /\ err = "targetCookieName cannot be empty"

\* C7: with a source cookie in the request, the rewritten Cookie header is
\* one line: the cookies not named SourceCookieName as name=value in their
\* original order, then TargetCookieName=<value of the last source cookie>,
\* joined by "; "; no path and no host in it.
C7_RewrittenHeader ==
    (Served /\ HasSourceCookie)
    => LET cs == Cookies(reqOrig)
           NotSource(c) == c.Name # config.SourceCookieName
           kept == SelectSeq(cs, NotSource)
           pairs == [i \in 1..Len(kept) |->
                        kept[i].Name \o "=" \o kept[i].Value]
           last == config.TargetCookieName \o "="
                       \o LastValue(cs, config.SourceCookieName)
       IN  /\ reqHeader = <<Join(Append(pairs, last), "; ")>>
           /\ headerSets = 1
           /\ ~Contains(reqHeader[1], "Path=")
           /\ ~Contains(reqHeader[1], "Domain=")
           /\ ~Contains(reqHeader[1], config.Path)
           /\ reqHost # "" => ~Contains(reqHeader[1], reqHost)

\* Two source cookies of different values around another cookie, a host and
\* dynamic domain on.
C7_Witness ==
    /\ Served
    /\ Cardinality(Named(Cookies(reqOrig), config.SourceCookieName)) = 2
    /\ Cookies(reqOrig)[1].Value # LastValue(Cookies(reqOrig),
                                             config.SourceCookieName)
    /\ Len(Cookies(reqOrig)) = 3
    /\ reqHost # ""
    /\ config.UseDynamicDomain
    /\ config.Path # "/"
    /\ reqHeader = <<"other=x; simple_token=b">>

(***************************************************************************)
(* Properties of the response phase.                                       *)
(***************************************************************************)
HasPrefix(s, prefix) ==
    Len(prefix) <= Len(s) /\ SubSeq(s, 1, Len(prefix)) = prefix

\* Number of positions of s at which substr occurs.
Occurrences(s, substr) ==
    Cardinality({i \in 1..(Len(s) - Len(substr) + 1) :
                    SubSeq(s, i, i + Len(substr) - 1) = substr})

LinesWith(lines, substr) ==
    {i \in 1..Len(lines) : Contains(lines[i], substr)}

\* Position of the call that commits the response on a plain
\* http.ResponseWriter: the first WriteHeader or Write; 0 when there is none.
CommitCall ==
    LET cs == {i \in 1..Len(calls) : calls[i].op \in {"WriteHeader", "Write"}}
    IN  IF cs = {} THEN 0 ELSE CHOOSE i \in cs : \A j \in cs : i <= j

\* The header calls the handler made before the response was committed.
CallsBeforeCommit ==
    IF CommitCall = 0 THEN calls ELSE SubSeq(calls, 1, CommitCall - 1)

\* What a plain http.ResponseWriter records for the handler's calls.
RefStatus ==
    IF CommitCall = 0 THEN (IF pc = "done" THEN 200 ELSE 0)
    ELSE IF calls[CommitCall].op = "WriteHeader" THEN calls[CommitCall].n
    ELSE 200

RECURSIVE WrittenBytes(_)
WrittenBytes(cs) ==
    IF cs = <<>> THEN ""
    ELSE (IF Head(cs).op = "Write" THEN Head(cs).s ELSE "")
             \o WrittenBytes(Tail(cs))

LastSet(cs) ==
    LET ss == {i \in 1..Len(cs) : cs[i].op = "Set"}
    IN  IF ss = {} THEN ""
        ELSE cs[CHOOSE i \in ss : \A j \in ss : j <= i].s

\* C3: when the downstream handler sets a cookie named SourceCookieName
\* (one Set-Cookie line starting with SourceCookieName=, added before the
\* response is committed, no other line mentioning either name) the response
\* released to the client has no Set-Cookie line containing
\* SourceCookieName= and exactly one containing TargetCookieName=.  Stated
\* for the configurations in which neither "name=" text contains the other,
\* the only ones on which it can be met.
C3_SourceRenamedInResponse ==
    LET added == SelectSeq(CallsBeforeCommit, LAMBDA c : c.op = "Add")
    IN  (/\ pc = "done"
         /\ ~Contains(TgtEq, SrcEq)
         /\ ~Contains(SrcEq, TgtEq)
         /\ Len(added) = 1
         /\ HasPrefix(added[1].s, SrcEq)
         /\ Occurrences(added[1].s, SrcEq) = 1
         /\ ~Contains(added[1].s, TgtEq))
        => /\ LinesWith(sentSetCookie, SrcEq) = {}
           /\ Cardinality(LinesWith(sentSetCookie, TgtEq)) = 1

\* C5: whenever a response is sent, transformResponseCookies has run exactly
\* once, and its result is the Set-Cookie set released to the client.
C5_TransformExactlyOnce ==
    wroteHeader
    => /\ Len(xformLog) = 1
       /\ sentSetCookie = xformLog[1].out

\* C6: the status code and the body bytes at the underlying writer are the
\* ones the downstream handler wrote, and the other response header is the
\* one the handler set.
C6_StatusBodyUntouched ==
    /\ wroteHeader = (CommitCall # 0 \/ pc = "done")
    /\ status = RefStatus
    /\ body = WrittenBytes(calls)
    /\ respOther = LastSet(calls)
    /\ wroteHeader => sentOther = LastSet(CallsBeforeCommit)

\* A renamed cookie, a non-default status and a body in one response.
C6_Witness ==
    /\ pc = "done"
    /\ status = 404
    /\ body = "ab"
    /\ Len(xformLog) = 1
    /\ xformLog[1].in # xformLog[1].out
    /\ sentSetCookie = xformLog[1].out

\* The text of line with its first src replaced by tgt, by cutting.
Renamed(line, src, tgt) ==
    LET c == Cut(line, src) IN c.before \o tgt \o c.after

\* C8: every run of the response transformation keeps the number and order
\* of the Set-Cookie lines: a line without SourceCookieName= is unchanged,
\* a line with it becomes its renamed text followed by appended attributes.
C8_LinesKeptInOrder ==
    \A k \in 1..Len(xformLog) :
        LET in == xformLog[k].in
            out == xformLog[k].out
        IN  /\ Len(out) = Len(in)
            /\ \A i \in 1..Len(in) :
                  IF Contains(in[i], SrcEq)
                  THEN HasPrefix(out[i], Renamed(in[i], SrcEq, TgtEq))
                  ELSE out[i] = in[i]

C8_Witness ==
    /\ config.HttpOnly /\ config.Secure /\ config.SameSite # ""
    /\ Len(xformLog) = 1
    /\ xformLog[1].in = <<"session=s1; HttpOnly", "flowise_token=xyz; Path=/">>
    /\ xformLog[1].out[1] = "session=s1; HttpOnly"
    /\ xformLog[1].out[2] # xformLog[1].in[2]

\* The attributes the configuration asks for, in the order they are added:
\* [on] the attribute is configured, [probe] the text whose presence
\* suppresses it, [text] the suffix.
Suffixes(cfg, host) ==
    << [on |-> cfg.UseDynamicDomain, probe |-> "Domain=",
        text |-> "; Domain=" \o host],
       [on |-> cfg.Path # "/", probe |-> "Path=",
        text |-> "; Path=" \o cfg.Path],
       [on |-> cfg.Secure, probe |-> "Secure", text |-> "; Secure"],
       [on |-> cfg.HttpOnly, probe |-> "HttpOnly", text |-> "; HttpOnly"],
       [on |-> cfg.SameSite # "", probe |-> "SameSite=",
        text |-> "; SameSite=" \o cfg.SameSite] >>

RECURSIVE WithSuffixes(_, _)
WithSuffixes(line, sfx) ==
    IF sfx = <<>> THEN line
    ELSE WithSuffixes(IF Head(sfx).on /\ ~Contains(line, Head(sfx).probe)
                      THEN line \o Head(sfx).text ELSE line,
                      Tail(sfx))

\* C9: a line containing SourceCookieName= comes out as the line with the
\* first SourceCookieName= replaced by TargetCookieName=, followed by the
\* Domain, Path, Secure, HttpOnly and SameSite suffixes, in this order, each
\* present iff configured and absent from the line built so far; and
\* "flowise_token=xyz; Path=/" with dynamic domain and host example.com
\* becomes "simple_token=xyz; Path=/; Domain=example.com" plus the configured
\* Secure, HttpOnly and SameSite suffixes.
C9_LineRewrite ==
    \A k \in 1..Len(xformLog) :
        LET in == xformLog[k].in
            out == xformLog[k].out
        IN  \A i \in 1..Len(in) :
              /\ Contains(in[i], SrcEq)
                 => out[i] = WithSuffixes(Renamed(in[i], SrcEq, TgtEq),
                                          Suffixes(config, reqHost))
              /\ (/\ in[i] = "flowise_token=xyz; Path=/"
                  /\ config.SourceCookieName = "flowise_token"
                  /\ config.TargetCookieName = "simple_token"
                  /\ config.UseDynamicDomain
                  /\ reqHost = "example.com")
                 => out[i] = "simple_token=xyz; Path=/; Domain=example.com"
                        \o (IF config.Secure THEN "; Secure" ELSE "")
                        \o (IF config.HttpOnly THEN "; HttpOnly" ELSE "")
                        \o (IF config.SameSite # ""
                            THEN "; SameSite=" \o config.SameSite ELSE "")

C9_Witness ==
    /\ config.Path = "/app"
    /\ reqHost = "example.com"
    /\ Len(xformLog) = 1
    /\ xformLog[1].in = <<"flowise_token=xyz; Path=/">>
    /\ xformLog[1].out =
         <<"simple_token=xyz; Path=/; Domain=example.com; Secure; HttpOnly; SameSite=Lax">>

\* Run k+1 of the transformation started from the result of run k.
BackToBack(k) == xformLog[k + 1].in = xformLog[k].out

ClaimedIdempotenceCondition(k) ==
    /\ ~Contains(TgtEq, SrcEq)
    /\ \A i \in 1..Len(xformLog[k].in) :
           Occurrences(xformLog[k].in[i], SrcEq) <= 1

\* C10 as claimed: when TargetCookieName= does not contain SourceCookieName=
\* and no Set-Cookie line holds SourceCookieName= more than once, a second
\* WriteHeader leaves the Set-Cookie set as the first one left it.
C10_IdempotentAsClaimed ==
    \A k \in 1..(Len(xformLog) - 1) :
        (BackToBack(k) /\ ClaimedIdempotenceCondition(k))
        => xformLog[k + 1].out = xformLog[k].out

\* C10 amended: the same, provided in addition that no Set-Cookie line
\* contains SourceCookieName= after the first WriteHeader.
C10_IdempotentOnceSourceGone ==
    \A k \in 1..(Len(xformLog) - 1) :
        (/\ BackToBack(k)
         /\ ClaimedIdempotenceCondition(k)
         /\ LinesWith(xformLog[k].out, SrcEq) = {})
        => xformLog[k + 1].out = xformLog[k].out

\* Two WriteHeader calls after a source cookie was set.
C10_Witness ==
    /\ Len(xformLog) = 2
    /\ BackToBack(1)
    /\ ClaimedIdempotenceCondition(1)
    /\ LinesWith(xformLog[1].in, SrcEq) # {}
    /\ xformLog[1].out # xformLog[1].in
    /\ LinesWith(xformLog[1].out, SrcEq) = {}
    /\ xformLog[2].out = xformLog[1].out

====
